---- MODULE Spec2Model ----
(***************************************************************************)
(* Model of FurnitureSawyerDenseRewardEnv                                  *)
(* (src/env/furniture_sawyer_tablelack.py): the phase / subtask state      *)
(* machine driven by _reset and _step -> _compute_reward.                  *)
(*                                                                         *)
(* Units: distances in millimetres, cosine similarities in hundredths,     *)
(* the gripper-close component ac[-2] in tenths, the connect component     *)
(* ac[-1] as its sign.  The simulator (poses, contacts) is an input that   *)
(* every step draws afresh.                                                *)
(***************************************************************************)
EXTENDS Integers, Sequences, FiniteSets, TLC

VARIABLES cfg, self, out, ever_done

vars == <<cfg, self, out, ever_done>>

\* ---------------------------------------------------------------- bounds
\* longest recipe explored (number of legs to attach)
MaxRecipe == 2

\* ----------------------------------------------------- program constants
\* self._phases, built in __init__
Phases == <<"move_eef_above_leg", "lower_eef_to_leg", "grasp_leg",
            "move_leg", "move_leg_fine">>

\* values of config.phase_bonus explored
PhaseBonusVals == {10, 50}

\* values of config.rot_threshold explored (hundredths)
RotThresholdVals == {5}

\* recipe entry k of the loaded yaml: the k-th leg and the table top
RecipeEntry(k) == [leg |-> k, table |-> 100]

\* site_recipe entry k: the connection site of leg k and its site on the table
SiteRecipeEntry(k) == [leg_site |-> k, table_site |-> 100 + k]

\* ---------------------------------------------------------------- inputs
ConnVals == {-1, 0, 1}
GripVals == {-10, 5, 10}
XYVals == {10, 20}
ZVals == {5, 15, 25}
CosVals == {50, 100}
FwdVals == {-100, 50}
MovePosVals == {50, 70}
MoveAngVals == {80, 90}
LiftVals == {0, 5}

\* what one call of _step sees: the action and the simulator state after the
\* physics step.  Fields that the branch taken in phase p never reads are
\* pinned to one value.
Inputs(p) ==
    [aligned : BOOLEAN, left : BOOLEAN, right : BOOLEAN, conn : ConnVals,
     grip : IF p = 2 THEN GripVals ELSE {10},
     xy : IF p \in {0, 1} THEN XYVals ELSE {20},
     z : IF p \in {0, 1} THEN ZVals ELSE {25},
     up : IF p \in {0, 1, 2} THEN CosVals ELSE {100},
     fwd : IF p \in {0, 1} THEN FwdVals ELSE {-100},
     move_pos : IF p = 3 THEN MovePosVals ELSE {70},
     move_ang : IF p = 3 THEN MoveAngVals ELSE {80},
     lift_dz : IF p = 3 THEN LiftVals ELSE {0}]

Abs(x) == IF x < 0 THEN -x ELSE x

\* ------------------------------------------------------ evaluator methods

\* variant: the phase pointer is not rewound when the subtask is rebound
UpdateRewardVariables_KeepPhase(s, k) ==
    [s EXCEPT !.leg = RecipeEntry(k).leg,
              !.table = RecipeEntry(k).table,
              !.leg_site = SiteRecipeEntry(k).leg_site,
              !.table_site = SiteRecipeEntry(k).table_site,
              !.touched = FALSE,
              !.leg_lift = FALSE,
              !.leg_fine_aligned = FALSE]

\* _update_reward_variables(subtask_step): rebinds the per-subtask fields
UpdateRewardVariables(s, k) ==
    [s EXCEPT !.phase_i = 0,
              !.leg = RecipeEntry(k).leg,
              !.table = RecipeEntry(k).table,
              !.leg_site = SiteRecipeEntry(k).leg_site,
              !.table_site = SiteRecipeEntry(k).table_site,
              !.touched = FALSE,
              !.leg_lift = FALSE,
              !.leg_fine_aligned = FALSE]

\* variant: the subtask pointer survives the reset
ResetRewardVariables_KeepSubtask(s) ==
    UpdateRewardVariables(s, s.subtask_step)

\* _reset_reward_variables
ResetRewardVariables(s) ==
    UpdateRewardVariables([s EXCEPT !.subtask_step = 0], 0)

\* variant: the next recipe entry is never bound
SetNextSubtask_NoUpdate(s, c) ==
    LET s1 == [s EXCEPT !.subtask_step = s.subtask_step + 1]
    IN [self |-> s1, ret |-> s1.subtask_step = c.n]

\* variant: every advance reports the recipe as exhausted
SetNextSubtask_AlwaysDone(s, c) ==
    LET s1 == [s EXCEPT !.subtask_step = s.subtask_step + 1]
    IN IF s1.subtask_step = c.n
       THEN [self |-> s1, ret |-> TRUE]
       ELSE [self |-> UpdateRewardVariables(s1, s1.subtask_step), ret |-> TRUE]

\* _set_next_subtask: the new evaluator state and the returned flag
SetNextSubtask(s, c) ==
    LET s1 == [s EXCEPT !.subtask_step = s.subtask_step + 1]
    IN IF s1.subtask_step = c.n
       THEN [self |-> s1, ret |-> TRUE]
       ELSE [self |-> UpdateRewardVariables(s1, s1.subtask_step), ret |-> FALSE]

\* _stable_grip_reward: the stable_grip_succ flag
StableGripSucc(c, in) ==
    in.up > 100 - c.rot_threshold /\ Abs(in.fwd) > 100 - c.rot_threshold

\* _move_eef_above_leg_reward: the move_eef_above_leg_succ flag
MoveEefAboveLegSucc(in) == in.xy < 15 /\ in.z < 20

\* _lower_eef_to_leg_reward: the lower_eef_to_leg_succ flag
LowerEefToLegSucc(in) == in.xy < 15 /\ in.z < 10

\* _finger_contact(self._leg): both fingers on the leg
Touch(in) == in.left /\ in.right

\* variant: the touch flag is not latched
GraspLegReward_NoLatch(s, in) ==
    [self |-> s,
     touch |-> Touch(in),
     succ |-> Touch(in) /\ in.grip > 5]

\* _grasp_leg_reward: grasp_leg_succ and the one-time touch flag
GraspLegReward(s, in) ==
    [self |-> [s EXCEPT !.touched = s.touched \/ Touch(in)],
     touch |-> Touch(in),
     succ |-> Touch(in) /\ in.grip > 5]

\* _move_leg_reward: touch, move_leg_succ and the one-time lift flag
MoveLegReward(s, in) ==
    [self |-> [s EXCEPT !.leg_lift = s.leg_lift \/ in.lift_dz > 2],
     touch |-> Touch(in),
     succ |-> in.move_pos < 60 /\ in.move_ang > 85]

\* _move_leg_fine_reward: touch, move_leg_fine_succ and connect_succ
MoveLegFineReward(s, in) ==
    [self |-> [s EXCEPT !.leg_fine_aligned = s.leg_fine_aligned \/ in.aligned],
     touch |-> Touch(in),
     succ |-> in.aligned,
     connect_succ |-> in.aligned /\ in.conn > 0]

\* the part of the result every branch of _compute_reward fills in
Result(s, c, in) ==
    [self |-> s, raised |-> FALSE, done |-> FALSE, phase_bonus |-> 0,
     fixed_reward |-> 0, early |-> FALSE, fallback |-> FALSE,
     advanced |-> FALSE, set_success |-> FALSE, phase_at_next |-> -1,
     touch |-> Touch(in), phase_succ |-> FALSE,
     sg_succ |-> StableGripSucc(c, in)]

\* variant: early success does not look at the connect action
EarlySuccess_NoConnCheck(s, c, in) ==
    LET r == [Result(s, c, in) EXCEPT !.early = TRUE, !.fixed_reward = 300]
        nx == SetNextSubtask([s EXCEPT !.phase_i = 5], c)
    IN IF in.aligned
       THEN [r EXCEPT !.fixed_reward = 20000, !.self = nx.self,
                      !.self.success = nx.ret, !.done = nx.ret,
                      !.advanced = TRUE, !.set_success = TRUE,
                      !.phase_at_next = 5]
       ELSE r

\* variant: early success keeps the current phase and the small reward
EarlySuccess_NoJump(s, c, in) ==
    LET r == [Result(s, c, in) EXCEPT !.early = TRUE, !.fixed_reward = 300]
        nx == SetNextSubtask(s, c)
    IN IF in.aligned /\ in.conn > 0
       THEN [r EXCEPT !.self = nx.self,
                      !.self.success = nx.ret, !.done = nx.ret,
                      !.advanced = TRUE, !.set_success = TRUE,
                      !.phase_at_next = s.phase_i]
       ELSE r

\* variant: the early-success branch does the touch bookkeeping of grasp_leg
EarlySuccess_LatchesTouch(s, c, in) ==
    LET r == [Result(s, c, in) EXCEPT !.early = TRUE, !.fixed_reward = 300]
        connect_succ == in.aligned /\ in.conn > 0
        nx == SetNextSubtask([s EXCEPT !.phase_i = 5], c)
    IN IF connect_succ
       THEN [r EXCEPT !.fixed_reward = 20000, !.self = nx.self,
                      !.self.success = nx.ret, !.done = nx.ret,
                      !.advanced = TRUE, !.set_success = TRUE,
                      !.phase_at_next = 5]
       ELSE [r EXCEPT !.self.touched = TRUE]

\* the early-success branch of _compute_reward (lines 162-173)
EarlySuccess(s, c, in) ==
    LET r == [Result(s, c, in) EXCEPT !.early = TRUE, !.fixed_reward = 300]
        connect_succ == in.aligned /\ in.conn > 0
        nx == SetNextSubtask([s EXCEPT !.phase_i = 5], c)
    IN IF connect_succ
       THEN [r EXCEPT !.fixed_reward = 20000, !.self = nx.self,
                      !.self.success = nx.ret, !.done = nx.ret,
                      !.advanced = TRUE, !.set_success = TRUE,
                      !.phase_at_next = 5]
       ELSE r

\* branch phase == "move_eef_above_leg" (lines 174-186)
BranchMoveEefAboveLeg(s, c, in) ==
    LET r == [Result(s, c, in) EXCEPT !.phase_succ = MoveEefAboveLegSucc(in)]
    IN IF r.phase_succ /\ r.sg_succ
       THEN [r EXCEPT !.self.phase_i = s.phase_i + 1, !.phase_bonus = 5]
       ELSE r

\* variant: lower_eef_to_leg advances without the stable-grip gate
BranchLowerEefToLeg_NoStableGrip(s, c, in) ==
    LET r == [Result(s, c, in) EXCEPT !.phase_succ = LowerEefToLegSucc(in)]
    IN IF r.phase_succ
       THEN [r EXCEPT !.self.phase_i = s.phase_i + 1, !.phase_bonus = 50]
       ELSE r

\* branch phase == "lower_eef_to_leg" (lines 187-193)
BranchLowerEefToLeg(s, c, in) ==
    LET r == [Result(s, c, in) EXCEPT !.phase_succ = LowerEefToLegSucc(in)]
    IN IF r.phase_succ /\ r.sg_succ
       THEN [r EXCEPT !.self.phase_i = s.phase_i + 1, !.phase_bonus = 50]
       ELSE r

\* variant: grasp_leg advances only under a stable grip
BranchGraspLeg_StableGated(s, c, in) ==
    LET g == GraspLegReward(s, in)
        r == [Result(s, c, in) EXCEPT !.self = g.self, !.phase_succ = g.succ]
    IN IF g.succ /\ r.sg_succ
       THEN [r EXCEPT !.self.phase_i = s.phase_i + 1,
                      !.phase_bonus = c.phase_bonus]
       ELSE r

\* branch phase == "grasp_leg" (lines 194-208)
BranchGraspLeg(s, c, in) ==
    LET g == GraspLegReward(s, in)
        r == [Result(s, c, in) EXCEPT !.self = g.self, !.phase_succ = g.succ]
    IN IF g.succ
       THEN [r EXCEPT !.self.phase_i = s.phase_i + 1,
                      !.phase_bonus = c.phase_bonus]
       ELSE r

\* branch phase == "move_leg" (lines 209-225)
BranchMoveLeg(s, c, in) ==
    LET m == MoveLegReward(s, in)
        r0 == [Result(s, c, in) EXCEPT !.self = m.self, !.phase_succ = m.succ]
        r1 == IF ~m.touch
              THEN [r0 EXCEPT !.phase_bonus = -100, !.done = TRUE]
              ELSE r0
    IN IF m.succ
       THEN [r1 EXCEPT !.self.phase_i = s.phase_i + 1,
                       !.phase_bonus = c.phase_bonus * 4]
       ELSE r1

\* variant: move_leg_fine connects on alignment alone
BranchMoveLegFine_AlignedOnly(s, c, in) ==
    LET m == MoveLegFineReward(s, in)
        r0 == [Result(s, c, in) EXCEPT !.self = m.self, !.phase_succ = m.succ]
        r1 == IF ~m.touch
              THEN [r0 EXCEPT !.phase_bonus = -125, !.done = TRUE]
              ELSE r0
        nx == SetNextSubtask([m.self EXCEPT !.phase_i = s.phase_i + 1], c)
    IN IF m.succ
       THEN [r1 EXCEPT !.phase_bonus = 20000, !.self = nx.self,
                       !.self.success = nx.ret, !.done = nx.ret,
                       !.advanced = TRUE, !.set_success = TRUE,
                       !.phase_at_next = s.phase_i + 1]
       ELSE r1

\* branch phase == "move_leg_fine" (lines 226-237)
BranchMoveLegFine(s, c, in) ==
    LET m == MoveLegFineReward(s, in)
        r0 == [Result(s, c, in) EXCEPT !.self = m.self, !.phase_succ = m.succ]
        r1 == IF ~m.touch
              THEN [r0 EXCEPT !.phase_bonus = -125, !.done = TRUE]
              ELSE r0
        nx == SetNextSubtask([m.self EXCEPT !.phase_i = s.phase_i + 1], c)
    IN IF m.connect_succ
       THEN [r1 EXCEPT !.phase_bonus = 20000, !.self = nx.self,
                       !.self.success = nx.ret, !.done = nx.ret,
                       !.advanced = TRUE, !.set_success = TRUE,
                       !.phase_at_next = s.phase_i + 1]
       ELSE r1

\* the final else of _compute_reward (lines 238-240)
BranchFallback(s, c, in) ==
    [Result(s, c, in) EXCEPT !.fallback = TRUE, !.done = TRUE]

\* phase = self._phases[self._phase_i] (line 153): a list index past the end
\* raises IndexError before anything is assigned
PhaseLookupRaises(s) == s.phase_i >= Len(Phases)

\* _compute_reward
ComputeReward(s, c, in) ==
    IF PhaseLookupRaises(s)
    THEN [Result(s, c, in) EXCEPT !.raised = TRUE]
    ELSE LET phase == Phases[s.phase_i + 1]
         IN IF phase /= "move_leg_fine" /\ in.aligned /\ in.left /\ in.right
            THEN EarlySuccess(s, c, in)
            ELSE IF phase = "move_eef_above_leg" THEN BranchMoveEefAboveLeg(s, c, in)
            ELSE IF phase = "lower_eef_to_leg" THEN BranchLowerEefToLeg(s, c, in)
            ELSE IF phase = "grasp_leg" THEN BranchGraspLeg(s, c, in)
            ELSE IF phase = "move_leg" THEN BranchMoveLeg(s, c, in)
            ELSE IF phase = "move_leg_fine" THEN BranchMoveLegFine(s, c, in)
            ELSE BranchFallback(s, c, in)

\* variant: a zero gripper command is read as "open"
Discretize_ZeroOpens(c, in) ==
    IF c.discrete_grip
    THEN [in EXCEPT !.grip = IF in.grip <= 0 THEN -10 ELSE 10]
    ELSE in

\* _step, lines 125-127: the gripper component is binarized in discrete mode
Discretize(c, in) ==
    IF c.discrete_grip
    THEN [in EXCEPT !.grip = IF in.grip < 0 THEN -10 ELSE 10]
    ELSE in

\* ------------------------------------------------------------ state machine

NoCall ==
    [kind |-> "new", phase |-> 0, subtask |-> 0, raised |-> FALSE,
     done |-> FALSE, phase_bonus |-> 0, fixed_reward |-> 0, early |-> FALSE,
     fallback |-> FALSE, advanced |-> FALSE, set_success |-> FALSE,
     phase_at_next |-> -1, aligned |-> FALSE, touch |-> FALSE, conn_pos |-> FALSE,
     phase_succ |-> FALSE, sg_succ |-> FALSE, grasp |-> FALSE]

\* the environment object after __init__: the per-episode fields are bound by
\* the first _reset, which the environment protocol puts before any _step
Init ==
    /\ cfg \in [n : 1..MaxRecipe, phase_bonus : PhaseBonusVals,
                rot_threshold : RotThresholdVals, discrete_grip : BOOLEAN]
    /\ self = [subtask_step |-> 0, phase_i |-> 0, success |-> FALSE,
               leg |-> RecipeEntry(0).leg, table |-> RecipeEntry(0).table,
               leg_site |-> SiteRecipeEntry(0).leg_site,
               table_site |-> SiteRecipeEntry(0).table_site,
               touched |-> FALSE, leg_lift |-> FALSE,
               leg_fine_aligned |-> FALSE]
    /\ out = NoCall
    /\ ever_done = FALSE

\* super()._reset of the base environment: starts a new episode
BaseReset(s) == [s EXCEPT !.success = FALSE]

\* _reset
Reset ==
    /\ self' = ResetRewardVariables(BaseReset(self))
    /\ out' = [NoCall EXCEPT !.kind = "reset"]
    /\ ever_done' = FALSE
    /\ UNCHANGED cfg

\* what the caller of _step sees of one call, with the pointers it started from
CallRecord(s, r, in) ==
    [kind |-> "step", phase |-> s.phase_i,
     subtask |-> s.subtask_step, raised |-> r.raised,
     done |-> r.done, phase_bonus |-> r.phase_bonus,
     fixed_reward |-> r.fixed_reward, early |-> r.early,
     fallback |-> r.fallback, advanced |-> r.advanced,
     set_success |-> r.set_success,
     phase_at_next |-> r.phase_at_next,
     aligned |-> in.aligned, touch |-> r.touch,
     conn_pos |-> in.conn > 0,
     phase_succ |-> r.phase_succ, sg_succ |-> r.sg_succ,
     grasp |-> in.grip > 5]

\* _step: one simulator step with action a, then _compute_reward(a)
Step ==
    /\ out.kind /= "new"
    /\ \E a \in Inputs(self.phase_i) :
         LET in == Discretize(cfg, a)
             r == ComputeReward(self, cfg, in)
         IN /\ self' = r.self
            /\ out' = CallRecord(self, r, in)
            /\ ever_done' = (ever_done \/ r.done)
    /\ UNCHANGED cfg

Next == Reset \/ Step

Spec == Init /\ [][Next]_vars

TypeOK ==
    /\ self.subtask_step \in 0..cfg.n
    /\ self.phase_i \in 0..5
    /\ self.success \in BOOLEAN
    /\ out.kind \in {"new", "reset", "step"}

\* ------------------------------------------------------------------ claims

\* the last call was a _step that got past the phase lookup
Stepped == out.kind = "step" /\ ~out.raised

\* the last _step moved the subtask pointer forward
Advanced == out.kind = "step" /\ self.subtask_step /= out.subtask

\* the per-subtask fields are those of recipe entry k, freshly bound
BoundTo(k) ==
    /\ self.leg = RecipeEntry(k).leg
    /\ self.table = RecipeEntry(k).table
    /\ self.leg_site = SiteRecipeEntry(k).leg_site
    /\ self.table_site = SiteRecipeEntry(k).table_site
    /\ ~self.touched /\ ~self.leg_lift /\ ~self.leg_fine_aligned

\* C1: after _reset, as long as no earlier step of the episode has returned
\* done=True, the phase pointer is a valid index into the five phases
\* (0 <= _phase_i <= 4) at the start of every step.
C1_PhaseIndexValid ==
    (out.kind /= "new" /\ ~ever_done) => self.phase_i \in 0..(Len(Phases) - 1)

\* C1 witness: an episode still running after a subtask was completed, the
\* phase pointer having passed through 5 and been rewound
C1_Witness ==
    /\ Stepped /\ ~ever_done /\ out.phase_at_next = 5
    /\ self.subtask_step = 1 /\ self.phase_i = 0

\* C2: the subtask pointer stays within 0..recipe length; below the recipe
\* length the bound leg is the recipe entry it points at; the step that makes
\* it equal to the recipe length returns done=True and sets success, and no
\* other step turns success on.
C2_SubtaskPointer ==
    [][/\ self'.subtask_step \in 0..cfg.n
       /\ self'.subtask_step < cfg.n =>
              self'.leg = RecipeEntry(self'.subtask_step).leg
       /\ (self'.subtask_step = cfg.n /\ self.subtask_step /= cfg.n) =>
              (out'.kind = "step" /\ out'.done /\ self'.success)
       /\ (self'.success /\ (~self.success \/ out'.set_success)) =>
              (out'.kind = "step" /\ out'.done /\ self'.subtask_step = cfg.n
               /\ self.subtask_step = cfg.n - 1)]_vars

\* C2 witness: the second leg of a two-leg recipe has just been connected
C2_Witness ==
    /\ Stepped /\ cfg.n = 2 /\ out.subtask = 1 /\ self.subtask_step = 2
    /\ out.done /\ self.success

\* C3 (as claimed): a move_leg step without two-finger contact returns
\* done=True and carries the drop penalty phase_bonus = -100, whatever the
\* move_leg success flag.
C3_DropPenaltyMoveLeg ==
    (Stepped /\ out.phase = 3 /\ ~out.touch) =>
        (out.done /\ out.phase_bonus = -100)

\* C4 (as claimed): a move_leg_fine step without two-finger contact carries
\* the drop penalty phase_bonus = -125 and returns done=True, whatever the
\* alignment, the connect action and the remaining subtasks.
C4_DropPenaltyMoveLegFine ==
    (Stepped /\ out.phase = 4 /\ ~out.touch) =>
        (out.done /\ out.phase_bonus = -125)

\* C5 (as claimed): within an episode the subtask pointer never decreases and
\* grows, by exactly 1, only in a step evaluated in move_leg_fine whose
\* connect condition holds.
C5_AdvanceOnlyInFine ==
    [][out'.kind = "step" =>
          /\ self'.subtask_step >= self.subtask_step
          /\ self'.subtask_step /= self.subtask_step =>
                /\ self'.subtask_step = self.subtask_step + 1
                /\ out'.phase = 4 /\ out'.aligned /\ out'.conn_pos]_vars

\* C5 (amended): within an episode the subtask pointer never decreases and
\* grows, by exactly 1, only in a step where the fine-alignment predicate
\* holds and ac[-1] > 0, evaluated either in move_leg_fine or, with both
\* fingers on the leg, in an earlier phase (early success).
C5_AdvanceOnlyOnConnect ==
    [][out'.kind = "step" =>
          /\ self'.subtask_step >= self.subtask_step
          /\ self'.subtask_step /= self.subtask_step =>
                /\ self'.subtask_step = self.subtask_step + 1
                /\ out'.aligned /\ out'.conn_pos
                /\ out'.phase = 4 \/ (out'.phase < 4 /\ out'.touch)]_vars

\* C5 witness: the last leg connected from move_leg by early success
C5_Witness ==
    /\ Advanced /\ out.early /\ out.phase = 3
    /\ self.subtask_step = out.subtask + 1 /\ self.subtask_step = cfg.n

\* C6 (as claimed): every step that advances the subtask pointer ends with
\* the phase pointer at 0.
C6_PhaseZeroOnAdvance == Advanced => self.phase_i = 0

\* C6 (amended): a step that advances the subtask pointer ends with the
\* phase pointer at 0 when the new index is below the recipe length, and at
\* the terminal index 5 when it equals the recipe length, on both paths.
C6_PhaseOnAdvance ==
    Advanced => self.phase_i = (IF self.subtask_step < cfg.n THEN 0 ELSE 5)

\* C6 witness: early success in the first phase moves on to the second leg
C6_Witness ==
    /\ Advanced /\ out.early /\ out.phase = 0
    /\ self.subtask_step < cfg.n /\ self.phase_i = 0

\* C7 (as claimed): a step evaluated with the phase pointer at 5 returns zero
\* phase reward and done=True through the fallback branch, without raising.
C7_TerminalFallback ==
    (out.kind = "step" /\ out.phase = 5) =>
        (~out.raised /\ out.fallback /\ out.done /\ out.fixed_reward = 0)

\* C8: in move_leg_fine, alignment with ac[-1] > 0 advances the subtask
\* pointer by exactly 1; at the recipe length the step returns done=True and
\* success=True, otherwise the phase pointer is 0 and the per-subtask fields
\* are those of the next recipe entry.  Without alignment or with
\* ac[-1] <= 0 the subtask pointer is unchanged.
C8_FineConnect ==
    (Stepped /\ out.phase = 4) =>
        IF out.aligned /\ out.conn_pos
        THEN /\ self.subtask_step = out.subtask + 1
             /\ IF self.subtask_step = cfg.n
                THEN out.done /\ self.success
                ELSE self.phase_i = 0 /\ BoundTo(self.subtask_step)
        ELSE self.subtask_step = out.subtask

\* C8 witness: the first leg of a two-leg recipe connected in move_leg_fine
C8_Witness ==
    /\ Stepped /\ out.phase = 4 /\ out.aligned /\ out.conn_pos
    /\ cfg.n = 2 /\ self.subtask_step = 1 /\ self.leg = RecipeEntry(1).leg

\* C9: before move_leg_fine, alignment with both fingers on the leg and
\* ac[-1] > 0 is an immediate success: phase reward 20000, the phase pointer
\* set to the terminal index 5 before the subtask is advanced, the subtask
\* pointer one higher, and done = success = (no subtask remains).
C9_EarlySuccess ==
    (Stepped /\ out.phase < 4 /\ out.aligned /\ out.touch /\ out.conn_pos) =>
        /\ out.early /\ out.fixed_reward = 20000
        /\ out.phase_at_next = 5
        /\ self.subtask_step = out.subtask + 1
        /\ out.done = (self.subtask_step = cfg.n)
        /\ self.success = (self.subtask_step = cfg.n)
        /\ self.subtask_step = cfg.n => self.phase_i = 5

\* C9 witness: early success while grasping, with a leg still to attach
C9_Witness ==
    /\ Stepped /\ out.phase = 2 /\ out.aligned /\ out.touch /\ out.conn_pos
    /\ self.subtask_step = out.subtask + 1 /\ self.subtask_step < cfg.n

\* the success condition of the phase the last step was evaluated in
SuccCond(o) ==
    CASE o.phase \in {0, 1} -> o.phase_succ /\ o.sg_succ
      [] o.phase \in {2, 3} -> o.phase_succ
      [] OTHER -> o.aligned /\ o.conn_pos

\* C10: a step leaves the phase pointer unchanged, increments it by exactly
\* 1 (only when the phase's success condition holds), or sets it to 5 through
\* early success; it goes back to 0 only when the subtask pointer advances.
C10_PhaseMonotone ==
    [][out'.kind = "step" =>
          /\ self'.subtask_step = self.subtask_step =>
                self'.phase_i \in {self.phase_i, self.phase_i + 1}
          /\ self'.phase_i \in {self.phase_i, self.phase_i + 1, 5, 0}
          /\ self'.phase_i \notin {self.phase_i, self.phase_i + 1, 5} =>
                self'.subtask_step = self.subtask_step + 1
          /\ (self'.phase_i = self.phase_i + 1 /\ ~out'.early) =>
                SuccCond(out')
          /\ (self'.phase_i = 5 /\ self.phase_i < 4) => out'.early]_vars

\* C10 witness: lower_eef_to_leg completed, the pointer moved from 1 to 2
C10_Witness ==
    /\ Stepped /\ ~out.early /\ out.phase = 1 /\ self.phase_i = 2
    /\ self.subtask_step = out.subtask

\* the phase pointer moved one phase forward in the last step
PhaseIncremented == self.phase_i = out.phase + 1

\* C13 (as claimed): in move_eef_above_leg and lower_eef_to_leg, when early
\* success does not apply, the phase pointer is incremented iff the position
\* success flag and the stable-grip flag are both 1, and is unchanged
\* otherwise; in grasp_leg it is incremented iff both fingers touch the leg
\* and ac[-2] > 0.5, with no stable-grip gating.
C13_PhaseAdvanceRule ==
    /\ (Stepped /\ out.phase \in {0, 1} /\ ~out.early) =>
          /\ PhaseIncremented <=> (out.phase_succ /\ out.sg_succ)
          /\ ~PhaseIncremented => self.phase_i = out.phase
    /\ (Stepped /\ out.phase = 2) =>
          (PhaseIncremented <=> (out.touch /\ out.grasp))

\* C13 (amended): as claimed for the first two phases; in grasp_leg, when
\* early success does not apply, the pointer is incremented iff both fingers
\* touch the leg and ac[-2] > 0.5, with no stable-grip gating.
C13_PhaseAdvanceRuleNoEarly ==
    /\ (Stepped /\ out.phase \in {0, 1} /\ ~out.early) =>
          /\ PhaseIncremented <=> (out.phase_succ /\ out.sg_succ)
          /\ ~PhaseIncremented => self.phase_i = out.phase
    /\ (Stepped /\ out.phase = 2 /\ ~out.early) =>
          /\ PhaseIncremented <=> (out.touch /\ out.grasp)
          /\ ~PhaseIncremented => self.phase_i = out.phase

\* C13 witness: grasp_leg completed although the grip is not stable
C13_Witness ==
    /\ Stepped /\ out.phase = 2 /\ ~out.early /\ out.touch /\ out.grasp
    /\ ~out.sg_succ /\ self.phase_i = 3

\* ======================================================================
\* Gripper and control penalties (_step -> _gripper_penalty, _ctrl_penalty)
\* ======================================================================

\* self._grip_open_phases, built in __init__
GripOpenPhases == {"move_eef_above_leg", "lower_eef_to_leg"}

\* raw gripper-close components a[-2] handed to _step (tenths)
GripRawVals == {-15, -10, -5, 0, 5, 10, 15}

\* the non-gripper part a[:-2] of the action, one component (tenths)
CtrlVals == {-10, 0, 10}

\* values of config.gripper_penalty_coef and config.ctrl_penalty_coef explored
GripperPenaltyCoefVals == {0, 1, 2}
CtrlPenaltyCoefVals == {0, 1}

\* _gripper_penalty: the penalty (tenths times coefficient), the gripper
\* value it is computed from, and whether "assert rew <= 0" passes
GripperPenalty(s, c, in) ==
    LET g == IF c.discrete_grip
             THEN (IF in.grip < 0 THEN -10 ELSE 10)
             ELSE in.grip
        grip_open == Phases[s.phase_i + 1] \in GripOpenPhases
        rew == IF ~grip_open
               THEN (IF grip_open THEN -10 - g ELSE g - 10)
                    * c.gripper_penalty_coef
               ELSE 0
    IN [rew |-> rew, seen |-> g, assert_ok |-> rew <= 0]

\* _ctrl_penalty: norm of the non-gripper components times -coefficient
CtrlPenalty(c, in) ==
    LET rew == Abs(in.ctrl) * (-c.ctrl_penalty_coef)
    IN [rew |-> rew, assert_ok |-> rew <= 0]

\* the evaluator in any of the five phases, with the penalty coefficients
InitGrip ==
    /\ cfg \in [n : {1}, phase_bonus : {10}, rot_threshold : RotThresholdVals,
                discrete_grip : BOOLEAN,
                gripper_penalty_coef : GripperPenaltyCoefVals,
                ctrl_penalty_coef : CtrlPenaltyCoefVals]
    /\ self \in [subtask_step : {0}, phase_i : 0..(Len(Phases) - 1),
                 success : {FALSE},
                 leg : {RecipeEntry(0).leg}, table : {RecipeEntry(0).table},
                 leg_site : {SiteRecipeEntry(0).leg_site},
                 table_site : {SiteRecipeEntry(0).table_site},
                 touched : {FALSE}, leg_lift : {FALSE},
                 leg_fine_aligned : {FALSE}]
    /\ out = [kind |-> "new"]
    /\ ever_done = FALSE

\* the gripper path of one _step: line 125-127, the simulator step on the
\* discretized action, then lines 155-157 of _compute_reward and the grasp
\* test of _grasp_leg_reward (line 309), all on the same array
StepPenalties ==
    /\ \E raw \in GripRawVals, ctrl \in CtrlVals :
         LET in == Discretize(cfg, [grip |-> raw, ctrl |-> ctrl])
             gp == GripperPenalty(self, cfg, in)
             cp == CtrlPenalty(cfg, in)
         IN out' = [kind |-> "penalty", phase |-> self.phase_i,
                    raw |-> raw, ctrl |-> ctrl,
                    sim_grip |-> in.grip, pen_grip |-> gp.seen,
                    grasp_grip |-> in.grip, grasp |-> in.grip > 5,
                    gripper_penalty |-> gp.rew, ctrl_penalty |-> cp.rew,
                    assert_ok |-> gp.assert_ok /\ cp.assert_ok]
    /\ UNCHANGED <<cfg, self, ever_done>>

NextGrip == StepPenalties

SpecGrip == InitGrip /\ [][NextGrip]_vars

\* the last call evaluated the penalties
Penalized == out.kind = "penalty"

\* C11 (as claimed): for every action, phase and gripper mode, with
\* non-negative coefficients, the gripper penalty and the control penalty are
\* both <= 0 and their assertions pass.
C11_PenaltiesNonPositive ==
    Penalized =>
        (out.gripper_penalty <= 0 /\ out.ctrl_penalty <= 0 /\ out.assert_ok)

C19_DiscreteGripConsistent ==
    (Penalized /\ cfg.discrete_grip) =>
        /\ out.sim_grip = (IF out.raw < 0 THEN -10 ELSE 10)
        /\ out.pen_grip = out.sim_grip
        /\ out.grasp_grip = out.sim_grip
        /\ out.grasp = (out.raw >= 0)

\* C19 witness: a zero command in discrete mode, read as "close" everywhere
C19_Witness ==
    /\ Penalized /\ cfg.discrete_grip /\ out.raw = 0
    /\ out.sim_grip = 10 /\ out.pen_grip = 10 /\ out.grasp

\* ======================================================================
\* Shaped rewards: cached "previous" values, one-time bonuses and the
\* grasp-site getters.  None of these is read by the phase / subtask
\* machine above, so Spec leaves them out and SpecShaped, below, runs the
\* same _reset and _step with them, over a simulator given by positions.
\* Positions are (x, z) in millimetres; rewards are in millimetres,
\* hundredths or tenths times their coefficient.
\* ======================================================================

\* an attribute that no statement has assigned yet
Unset == -999

\* _get_pos(leg): body position of leg k; the legs rest 200 mm apart
LegPos(k) == [x |-> 200 * k, z |-> 0]

\* griptip_site relative to the body of the current leg
EefVals == {[x |-> 10, z |-> 55], [x |-> 10, z |-> -10]}

\* leg_site minus table_site
SiteVals == {[x |-> 24, z |-> 18], [x |-> 0, z |-> 50]}

\* midpoint of the two grasp sites minus the body position of their leg (x):
\* the default ltgt / rtgt sites sit on either side of the body, a pair from
\* grip_site_recipe need not
GraspOff(src) == IF src = "default" THEN 0 ELSE 10

\* np.linalg.norm of a two-component vector (exact on the values used)
Norm(dx, dz) ==
    CHOOSE m \in 0..(Abs(dx) + Abs(dz)) :
        m * m <= dx * dx + dz * dz /\ (m + 1) * (m + 1) > dx * dx + dz * dz

\* the simulator state and action of one _step in phase p; fields the
\* branches of phase p never read are pinned to one value
SimVals(p) ==
    {g \in [aligned : BOOLEAN, left : BOOLEAN, right : {TRUE}, conn : {0, 1},
            grip : IF p = 2 THEN {-10, 10} ELSE {10},
            up : {100}, fwd : {-100},
            eef : IF p \in {0, 1, 2} THEN EefVals ELSE {[x |-> 10, z |-> -10]},
            site : IF p \in {3, 4} THEN SiteVals ELSE {[x |-> 24, z |-> 18]},
            move_ang : IF p \in {3, 4} THEN MoveAngVals ELSE {90},
            lift_dz : IF p = 3 THEN LiftVals ELSE {0}] :
        /\ g.conn = 1 => g.aligned
        /\ p \in {0, 1} => g.left = g.aligned}

\* the pair of sites the grasp getters close over for recipe entry k:
\* grip_site_recipe[k] when the recipe file has one, else the ltgt / rtgt
\* sites of the leg (lines 64-66 and 108-112)
GripSites(c, k) ==
    IF k < c.grip_len
    THEN [src |-> "grip_site_recipe", leg |-> RecipeEntry(k).leg]
    ELSE [src |-> "default", leg |-> RecipeEntry(k).leg]

\* _get_leg_grasp_pos: midpoint of the two sites the getter closed over
GetLegGraspPos(s, c) ==
    [x |-> LegPos(s.grasp_sites.leg).x + GraspOff(s.grasp_sites.src),
     z |-> LegPos(s.grasp_sites.leg).z]

\* xy_distance + z_distance of the gripper tip to a point zoff above ref
\* (lines 260-262, 285-287, 100-102, 184-186)
EefDistance(eef, ref, zoff) == Abs(eef.x - ref.x) + Abs(eef.z - (ref.z + zoff))

\* the quantities the reward functions compute from the simulator
Observe(s, c, g) ==
    LET eef == [x |-> LegPos(s.leg).x + g.eef.x, z |-> LegPos(s.leg).z + g.eef.z]
        gp == GetLegGraspPos(s, c)
        zoff == IF s.phase_i = 0 THEN 50 ELSE -15
    IN [aligned |-> g.aligned, left |-> g.left, right |-> g.right,
        conn |-> g.conn, grip |-> g.grip, up |-> g.up, fwd |-> g.fwd,
        xy |-> Abs(eef.x - gp.x), z |-> Abs(eef.z - (gp.z + zoff)),
        move_pos |-> Norm(g.site.x, 50 - g.site.z),
        fine_pos |-> Abs(g.site.x) + Abs(g.site.z),
        move_ang |-> g.move_ang, lift_dz |-> g.lift_dz,
        eef |-> eef, site |-> g.site]

\* variant: the differential term leaves its cache as it was
DiffTerm_KeepPrev(c, prev, dist, coef, scale) ==
    IF c.diff_rew
    THEN [rew |-> (prev - dist) * coef * scale, prev |-> prev,
          read_unset |-> prev = Unset]
    ELSE [rew |-> -dist * coef, prev |-> prev, read_unset |-> FALSE]

\* an "if self._diff_rew" position term: the reward and the new cache
DiffTerm(c, prev, dist, coef, scale) ==
    IF c.diff_rew
    THEN [rew |-> (prev - dist) * coef * scale, prev |-> dist,
          read_unset |-> prev = Unset]
    ELSE [rew |-> -dist * coef, prev |-> prev, read_unset |-> FALSE]

NoShaping(s) ==
    [self |-> s, pos_rew |-> 0, ang_rew |-> 0, grasp_rew |-> 0,
     touch_bonus |-> FALSE, lift_bonus |-> FALSE, read_unset |-> FALSE]

\* _move_eef_above_leg_reward, lines 258-268
MoveEefAboveLegShaping(s, c, in) ==
    LET d == DiffTerm(c, s.prev_eef_above_leg_distance, in.xy + in.z,
                      c.pos_dist_coef, 1)
    IN [NoShaping(s) EXCEPT !.self.prev_eef_above_leg_distance = d.prev,
                            !.pos_rew = d.rew, !.read_unset = d.read_unset]

\* _lower_eef_to_leg_reward, lines 283-294
LowerEefToLegShaping(s, c, in) ==
    LET d == DiffTerm(c, s.prev_eef_leg_distance, in.xy + in.z,
                      c.pos_dist_coef, 1)
    IN [NoShaping(s) EXCEPT !.self.prev_eef_leg_distance = d.prev,
                            !.pos_rew = d.rew, !.read_unset = d.read_unset]

\* _grasp_leg_reward, lines 302-324 (s is the evaluator before the call)
GraspLegShaping(s, c, in) ==
    LET l == LowerEefToLegShaping(s, c, in)
    IN [l EXCEPT !.self.prev_grasp_leg_rew = in.grip,
                 !.grasp_rew = (in.grip - s.prev_grasp_leg_rew)
                               * c.gripper_penalty_coef * 40,
                 !.read_unset = l.read_unset \/ s.prev_grasp_leg_rew = Unset,
                 !.touch_bonus = Touch(in) /\ ~s.touched]

\* _move_leg_reward, lines 338-362
MoveLegShaping(s, c, in) ==
    LET d == DiffTerm(c, s.prev_move_pos_distance, in.move_pos,
                      c.pos_dist_coef, 10)
    IN [NoShaping(s) EXCEPT !.self.prev_move_pos_distance = d.prev,
                            !.pos_rew = d.rew, !.read_unset = d.read_unset,
                            !.ang_rew = (in.move_ang - 100)
                                        * c.align_rot_dist_coef,
                            !.lift_bonus = in.lift_dz > 2 /\ ~s.leg_lift]

\* _move_leg_fine_reward, lines 376-406; the two projection terms are taken
\* at their optimum (-1), where they add nothing to the angular reward
MoveLegFineShaping(s, c, in) ==
    LET d == DiffTerm(c, s.prev_move_pos_distance, in.fine_pos,
                      c.fine_pos_dist_coef, 10)
    IN [NoShaping(s) EXCEPT !.self.prev_move_pos_distance = d.prev,
                            !.pos_rew = d.rew, !.read_unset = d.read_unset,
                            !.ang_rew = (in.move_ang - 100)
                                        * c.fine_align_rot_dist_coef]

\* variant: finishing lower_eef_to_leg does not store the gripper action
TransitionCaches_NoGraspCache(s0, s, c, in, p) ==
    IF p = 0
    THEN [s EXCEPT !.prev_eef_leg_distance =
                       EefDistance(in.eef, LegPos(s0.leg), -15)]
    ELSE IF p = 2
    THEN [s EXCEPT !.prev_move_pos_distance = Norm(in.site.x, 50 - in.site.z),
                   !.prev_move_ang_dist = in.move_ang]
    ELSE IF p = 3
    THEN [s EXCEPT !.prev_move_pos_distance = Norm(in.site.x, in.site.z),
                   !.prev_move_ang_dist = in.move_ang]
    ELSE s

\* the caches written when a branch of _compute_reward finishes its phase
\* (lines 180-186, 193, 200-208, 219-225); s0 is the evaluator before the
\* step, s the evaluator being built, p the phase the step was evaluated in
TransitionCaches(s0, s, c, in, p) ==
    IF p = 0
    THEN [s EXCEPT !.prev_eef_leg_distance =
                       EefDistance(in.eef, LegPos(s0.leg), -15)]
    ELSE IF p = 1
    THEN [s EXCEPT !.prev_grasp_leg_rew = in.grip]
    ELSE IF p = 2
    THEN [s EXCEPT !.prev_move_pos_distance = Norm(in.site.x, 50 - in.site.z),
                   !.prev_move_ang_dist = in.move_ang]
    ELSE IF p = 3
    THEN [s EXCEPT !.prev_move_pos_distance = Norm(in.site.x, in.site.z),
                   !.prev_move_ang_dist = in.move_ang]
    ELSE s

\* _update_reward_variables, lines 94-114: the cached distance of the first
\* phase and the grasp getters (s already holds the fields of lines 86-95)
UpdateShapedVariables(s, c, k, eef) ==
    LET s1 == IF c.diff_rew
              THEN [s EXCEPT !.prev_eef_above_leg_distance =
                                 EefDistance(eef, LegPos(s.leg), 50)]
              ELSE s
    IN IF k = 0
       THEN s1
       ELSE [s1 EXCEPT !.grasp_sites = GripSites(c, s.subtask_step)]

\* the shaping side of _compute_reward: r is the outcome of the branch taken
Shaping(s0, r, c, in) ==
    LET p == s0.phase_i
        sh == IF r.raised \/ r.early \/ r.fallback THEN NoShaping(s0)
              ELSE IF p = 0 THEN MoveEefAboveLegShaping(s0, c, in)
              ELSE IF p = 1 THEN LowerEefToLegShaping(s0, c, in)
              ELSE IF p = 2 THEN GraspLegShaping(s0, c, in)
              ELSE IF p = 3 THEN MoveLegShaping(s0, c, in)
              ELSE MoveLegFineShaping(s0, c, in)
        \* the control fields come from the branch, the caches from sh
        s1 == [r.self EXCEPT
                 !.prev_eef_above_leg_distance = sh.self.prev_eef_above_leg_distance,
                 !.prev_eef_leg_distance = sh.self.prev_eef_leg_distance,
                 !.prev_grasp_leg_rew = sh.self.prev_grasp_leg_rew,
                 !.prev_move_pos_distance = sh.self.prev_move_pos_distance,
                 !.prev_move_ang_dist = sh.self.prev_move_ang_dist]
        finished == ~r.raised /\ ~r.early /\ ~r.fallback /\ p < 4
                    /\ r.self.phase_i = p + 1
        s2 == IF finished THEN TransitionCaches(s0, s1, c, in, p) ELSE s1
        s3 == IF r.advanced /\ s2.subtask_step < c.n
              THEN UpdateShapedVariables(s2, c, s2.subtask_step, in.eef)
              ELSE s2
    IN [sh EXCEPT !.self = s3]

\* the quantity phase p of evaluator s drives to zero, as its reward function
\* computes it (lines 258-262, 283-287, 339-341, 377-381)
TargetQuantity(s, c, p, eef, site) ==
    IF p = 0 THEN EefDistance(eef, GetLegGraspPos(s, c), 50)
    ELSE IF p \in {1, 2} THEN EefDistance(eef, GetLegGraspPos(s, c), -15)
    ELSE IF p = 3 THEN Norm(site.x, 50 - site.z)
    ELSE IF p = 4 THEN Abs(site.x) + Abs(site.z)
    ELSE 0

\* the cache that the differential position term of phase p reads
PhaseCache(s, p) ==
    IF p = 0 THEN s.prev_eef_above_leg_distance
    ELSE IF p \in {1, 2} THEN s.prev_eef_leg_distance
    ELSE IF p \in {3, 4} THEN s.prev_move_pos_distance
    ELSE 0

\* the factor between a differential position reward and the distance gained
PhaseScale(c, p) ==
    IF p \in {0, 1, 2} THEN c.pos_dist_coef
    ELSE IF p = 3 THEN c.pos_dist_coef * 10
    ELSE c.fine_pos_dist_coef * 10

\* bookkeeping over the calls made so far: bonuses given since the subtask
\* pointer last changed, touch bonuses of the episode, and, in differential
\* mode, the position rewards summed since the phase or subtask last changed
\* with the cache (run_start) and the target quantity (run_from) at that point
NoHist ==
    [n_touch |-> 0, n_lift |-> 0, total_touch |-> 0,
     run_start |-> 0, run_from |-> 0, run_sum |-> 0]

HistAfterStep(h, s0, s1, c, sh, tq) ==
    LET moved == s1.subtask_step /= s0.subtask_step
        newrun == moved \/ s1.phase_i /= s0.phase_i
        tb == IF sh.touch_bonus THEN 1 ELSE 0
        lb == IF sh.lift_bonus THEN 1 ELSE 0
    IN [n_touch |-> IF moved THEN 0 ELSE h.n_touch + tb,
        n_lift |-> IF moved THEN 0 ELSE h.n_lift + lb,
        total_touch |-> h.total_touch + tb,
        run_start |-> IF ~c.diff_rew THEN 0
                      ELSE IF newrun THEN PhaseCache(s1, s1.phase_i)
                      ELSE h.run_start,
        run_from |-> IF ~c.diff_rew THEN 0
                     ELSE IF newrun THEN tq ELSE h.run_from,
        run_sum |-> IF newrun \/ ~c.diff_rew THEN 0
                    ELSE h.run_sum + sh.pos_rew]

\* the environment object after __init__ (lines 37-70): coefficients from the
\* config, getters bound to the sites of recipe entry 0, no cache assigned
InitShaped ==
    /\ cfg \in {c \in [n : 1..MaxRecipe, phase_bonus : {10},
                       rot_threshold : RotThresholdVals,
                       discrete_grip : {FALSE}, diff_rew : BOOLEAN,
                       grip_len : 0..MaxRecipe,
                       pos_dist_coef : {2}, fine_pos_dist_coef : {3},
                       align_rot_dist_coef : {1},
                       fine_align_rot_dist_coef : {1},
                       gripper_penalty_coef : {1}] : c.grip_len \in {0, c.n}}
    /\ self = [subtask_step |-> 0, phase_i |-> 0, success |-> FALSE,
               leg |-> RecipeEntry(0).leg, table |-> RecipeEntry(0).table,
               leg_site |-> SiteRecipeEntry(0).leg_site,
               table_site |-> SiteRecipeEntry(0).table_site,
               touched |-> FALSE, leg_lift |-> FALSE,
               leg_fine_aligned |-> FALSE,
               grasp_sites |-> GripSites(cfg, 0),
               prev_eef_above_leg_distance |-> Unset,
               prev_eef_leg_distance |-> Unset,
               prev_grasp_leg_rew |-> Unset,
               prev_move_pos_distance |-> Unset,
               prev_move_ang_dist |-> Unset]
    /\ out = [kind |-> "new", hist |-> NoHist]
    /\ ever_done = FALSE

\* _reset, with the gripper tip somewhere near the first leg
ResetShaped ==
    /\ \E e \in EefVals :
       \E eef \in {[x |-> LegPos(RecipeEntry(0).leg).x + e.x,
                    z |-> LegPos(RecipeEntry(0).leg).z + e.z]} :
       \E s1 \in {UpdateShapedVariables(
                      ResetRewardVariables(BaseReset(self)), cfg, 0, eef)} :
       \E tq \in {TargetQuantity(s1, cfg, 0, eef, [x |-> 0, z |-> 0])} :
            /\ self' = s1
            /\ out' = [kind |-> "reset", left_subtask |-> self.subtask_step,
                       left_flags |-> self.touched \/ self.leg_lift,
                       eef |-> eef, target_now |-> tq,
                       hist |-> IF cfg.diff_rew
                                THEN [NoHist EXCEPT
                                        !.run_start = PhaseCache(s1, 0),
                                        !.run_from = tq]
                                ELSE NoHist]
    /\ ever_done' = FALSE
    /\ UNCHANGED cfg

\* what the step sees is the case of the shortcut without connect: a phase
\* before move_leg_fine, sites aligned, both fingers on the leg, ac[-1] <= 0
\* (lines 160-162 and 167)
ShortcutCase(s, in) ==
    /\ s.phase_i \in 0..3
    /\ in.aligned /\ in.left /\ in.right
    /\ in.conn <= 0

\* _step: the simulator step, then _compute_reward with all its shaping
StepShaped ==
    /\ out.kind /= "new"
    /\ \E g \in SimVals(self.phase_i) :
       \E in \in {Discretize(cfg, Observe(self, cfg, g))} :
       \E r \in {ComputeReward(self, cfg, in)} :
       \E sh \in {Shaping(self, r, cfg, in)} :
       \E tq \in {TargetQuantity(sh.self, cfg, sh.self.phase_i,
                                  in.eef, in.site)} :
            /\ self' = sh.self
            /\ out' = [kind |-> "step", phase |-> self.phase_i,
                       subtask |-> self.subtask_step, raised |-> r.raised,
                       early |-> r.early, fallback |-> r.fallback,
                       advanced |-> r.advanced, done |-> r.done,
                       shortcut_case |-> ShortcutCase(self, in),
                       grasp |-> in.grip > 5,
                       phase_succ |-> r.phase_succ,
                       pos_rew |-> sh.pos_rew, ang_rew |-> sh.ang_rew,
                       touch_bonus |-> sh.touch_bonus,
                       lift_bonus |-> sh.lift_bonus,
                       read_unset |-> sh.read_unset,
                       ang_before |-> self.prev_move_ang_dist,
                       move_ang |-> in.move_ang,
                       target_now |-> tq,
                       hist |-> HistAfterStep(out.hist, self, sh.self,
                                              cfg, sh, tq)]
            /\ ever_done' = (ever_done \/ r.done)
    /\ UNCHANGED cfg

NextShaped == ResetShaped \/ StepShaped

SpecShaped == InitShaped /\ [][NextShaped]_vars

ShapedTypeOK ==
    /\ self.subtask_step \in 0..cfg.n
    /\ self.phase_i \in 0..5
    /\ out.hist.n_touch \in 0..1

\* ----------------------------------------------- claims on reward shaping

\* the last call entered the phase the pointers now name: a reset, or a step
\* that moved the phase or subtask pointer onto a recipe entry
EnteredPhase ==
    \/ out.kind = "reset"
    \/ /\ out.kind = "step" /\ ~out.raised
       /\ self.phase_i /= out.phase \/ self.subtask_step /= out.subtask
       /\ self.subtask_step < cfg.n

\* C14: in differential mode, on entry into move_eef_above_leg,
\* lower_eef_to_leg, move_leg or move_leg_fine the cache that the entered
\* phase reads equals that phase's own target quantity at the transition state
C14_EntryCacheIsTarget ==
    (cfg.diff_rew /\ EnteredPhase /\ self.phase_i \in {0, 1, 3, 4})
        => PhaseCache(self, self.phase_i) = out.target_now

\* the position coefficient of phase p
PosCoef(c, p) == IF p = 4 THEN c.fine_pos_dist_coef ELSE c.pos_dist_coef

\* the last call was a step of a run: differential mode, and neither the
\* phase nor the subtask has changed since the run began
InRun ==
    /\ out.kind = "step" /\ ~out.raised /\ cfg.diff_rew
    /\ self.phase_i = out.phase /\ self.subtask_step = out.subtask

AngCoef(c, p) ==
    IF p = 4 THEN c.fine_align_rot_dist_coef ELSE c.align_rot_dist_coef

\* the last call ran the reward function of move_leg or move_leg_fine in
\* differential mode
AngularStep ==
    /\ out.kind = "step" /\ ~out.raised /\ ~out.early /\ ~out.fallback
    /\ cfg.diff_rew /\ out.phase \in {3, 4}

\* C16: in differential mode the angular reward of move_leg and
\* move_leg_fine is (current cosine similarity minus the cached
\* _prev_move_ang_dist) times its coefficient, and the cache is updated by
\* the step
C16_AngularIsDifferential ==
    AngularStep =>
        /\ out.ang_rew = (out.move_ang - out.ang_before)
                         * AngCoef(cfg, out.phase)
        /\ self.phase_i = out.phase => self.prev_move_ang_dist = out.move_ang

\* C17: between two changes of the subtask pointer (or resets) the touch
\* bonus and the lift bonus are each added by at most one step, and each is
\* available (its flag is clear) exactly as long as it has not been added for
\* the current subtask, in particular after an advance and after _reset
C17_BonusOncePerSubtask ==
    /\ out.hist.n_touch <= 1
    /\ out.hist.n_lift <= 1
    /\ (out.kind /= "new" /\ self.subtask_step < cfg.n) =>
          /\ self.touched <=> out.hist.n_touch = 1
          /\ self.leg_lift <=> out.hist.n_lift = 1
    /\ (out.kind = "reset"
        \/ (out.kind = "step" /\ self.subtask_step /= out.subtask
            /\ self.subtask_step < cfg.n)) =>
          ~self.touched /\ ~self.leg_lift

\* the touch bonus is given again in the second subtask of an episode
C17_Witness ==
    /\ out.kind = "step" /\ out.touch_bonus
    /\ out.subtask = 1 /\ out.hist.total_touch = 2

\* C18: after _reset, whatever happened in earlier episodes, the subtask
\* pointer and the phase pointer are 0, the touched / lifted / fine-aligned
\* flags are False, the parts and sites are those of recipe entry 0, and in
\* differential mode the cached move_eef_above_leg distance is the one
\* computed from the gripper position at the reset
C18_ResetReinitializes ==
    out.kind = "reset" =>
        /\ self.subtask_step = 0
        /\ self.phase_i = 0
        /\ BoundTo(0)
        /\ cfg.diff_rew =>
              self.prev_eef_above_leg_distance =
                  EefDistance(out.eef, LegPos(RecipeEntry(0).leg), 50)

\* a reset in differential mode that ends an episode in which the subtask
\* pointer had advanced and the one-shot flags had been set
C18_Witness ==
    /\ out.kind = "reset" /\ cfg.diff_rew
    /\ out.left_subtask >= 1 /\ out.left_flags

\* C20: whenever the evaluator is bound to a recipe entry, the pair of sites
\* behind _get_leg_grasp_pos / _get_leg_grasp_vector is the pair of the
\* current subtask: its grip_site_recipe entry when there is one, else the
\* default sites of its leg
C20_GraspSitesCurrent ==
    self.subtask_step < cfg.n =>
        self.grasp_sites = GripSites(cfg, self.subtask_step)

\* C21: after _reset, in either reward mode and on every path (through the
\* early-success shortcut too), no step reads a cache field (_prev_*) that
\* has not been assigned
C21_NoUnassignedRead ==
    out.kind = "step" => ~out.read_unset


\* a grasp_leg step of the second subtask reads its caches although no
\* grasp_leg has ever finished: the subtask was entered through the
\* early-success shortcut
C21_Witness ==
    /\ out.kind = "step" /\ ~out.early /\ ~out.raised
    /\ out.subtask = 1 /\ out.phase = 2 /\ self.phase_i = 2
    /\ self.prev_move_pos_distance = Unset

\* C22: a step in a phase before move_leg_fine with the sites aligned, both
\* fingers on the leg and ac[-1] <= 0 goes through the early-success branch
\* and nothing else: pointers, one-shot flags and every cached previous value
\* stay as they were, done is False, and the phase's success test is not run
C22_ShortcutFrame ==
    [][(out'.kind = "step" /\ out'.shortcut_case) =>
          /\ out'.early
          /\ self' = self
          /\ ~out'.done
          /\ ~out'.phase_succ
          /\ out'.pos_rew = 0 /\ ~out'.touch_bonus /\ ~out'.lift_bonus]_vars

\* the shortcut pre-empts a grasp_leg step that would have finished the
\* phase (both fingers on the leg, gripper closing), in differential mode
C22_Witness ==
    /\ out.kind = "step" /\ out.shortcut_case /\ cfg.diff_rew
    /\ out.phase = 2 /\ out.grasp /\ self.phase_i = 2 /\ ~self.touched
====
